---- MODULE Spec2Model ----
(***************************************************************************)
(* Round engine of the prediction game (src/src/components/                *)
(* PredictionGame.tsx), a React function component.                        *)
(*                                                                         *)
(* Two copies of GameState are kept, as React keeps them:                  *)
(*   prev       the value handed to the next updater `prev => ...`, i.e.   *)
(*              the result of every setGameState call made so far;         *)
(*   gameState  the value of the component's `gameState` constant at the   *)
(*              last render: what the useCallback closures (the guards of  *)
(*              addPrediction and placePredictions, endRound) and the      *)
(*              effects' dependency arrays read.                           *)
(* A setGameState made in a click handler is rendered synchronously, so    *)
(* the intent actions apply their updater to both copies.  A setGameState  *)
(* made in a timer callback is rendered by a later task (action Render):   *)
(* in between, a click is still handled by the closures of the old render. *)
(*                                                                         *)
(* Time is counted in quanta of 500 ms, the common divisor of the three    *)
(* delays of the source (1000, 1500, 3000 ms).  A timer holds the number   *)
(* of quanta left before it is due; time advances only when no timer is    *)
(* due and no render is pending.                                           *)
(*                                                                         *)
(* PredictionType is "big" | "small" | "red" | "green" | "blue" | number;  *)
(* the numbers 0..9 are written as the digit strings Digits[n + 1] so that *)
(* all types are comparable.  Multipliers are in tenths (1.9 is 19).       *)
(* Date.now() is the logical clock `clock`, one more at each resolution.   *)
(* The cosmetic fields of GameState (settings, mode, bettingActivity) are  *)
(* carried along; only the specification CosmeticSpec changes them.        *)
(*                                                                         *)
(* `call` serves the specification of checkWinnings as a function of its   *)
(* arguments alone; the specifications of the game leave it at NoCall.     *)
(*                                                                         *)
(* `loading` is Page with its LoadingScreen, examined by LoadSpec before   *)
(* PredictionGame is rendered; the specifications of the game start once   *)
(* the screen has completed and leave it at LoadingCompleted.              *)
(***************************************************************************)
EXTENDS Integers, Sequences, FiniteSets, TLC

VARIABLES
    prev,            \* GameState seen by the next updater
    gameState,       \* GameState of the last render (closures, deps)
    intervalRef,     \* <<>> (null) or <<quanta left>> of the countdown interval
    endRoundTimers,  \* pending setTimeout(endRound, 1500), with their closures
    newRoundTimers,  \* pending setTimeout(startNewRound, 3000): quanta left
    renderPending,   \* a timer callback called setGameState, render not yet run
    lockedReplaced,  \* a pending update installs a new lockedPredictions array
    toast,           \* the toast shown by the last step, "none" if it showed none
    totalWinnings,   \* the total multiplier in that toast, in tenths, 0 if none
    clock,           \* number of resolutions so far (Date.now())
    call,            \* a call of checkWinnings on its own: arguments, value
    loading          \* Page and LoadingScreen: state, pending timers, callbacks

vars == <<prev, gameState, intervalRef, endRoundTimers, newRoundTimers,
          renderPending, lockedReplaced, toast, totalWinnings, clock, call, loading>>

----------------------------------------------------------------------------
\* Bounds of the model

\* resolutions after which the capped specifications stop resolving rounds
MaxRounds == 1
\* resolutions after which the specification of the history stops
MaxHistory == 11
\* longest list of predictions handed to checkWinnings on its own
MaxCallLen == 2
\* bits of the random integers that getRandomInt is fed with
EntropyBits == 8

\* inputs of the capped specification Spec
SpecKinds == {"big", "red"}
SpecNumbers == {7}
SpecColors == {"red"}

\* Skip clicks examined during one life of the screen
MaxSkips == 2

----------------------------------------------------------------------------
\* Program constants

\* setInterval(..., 1000), in quanta of 500 ms
TickQuanta == 2
\* setTimeout(endRound, 1500), in quanta of 500 ms
ResolveQuanta == 3
\* setTimeout(startNewRound, 3000), in quanta of 500 ms
ResultQuanta == 6
\* prev.history.slice(0, 9)
HistoryKeep == 9
\* prev.bettingActivity.slice(0, 4)
ActivityKeep == 4

\* type RoundDuration = 10 | 15 | 20
RoundDuration == {10, 15, 20}

\* type GamePhase
GamePhase == {"betting", "resolving", "showing-result"}

Digits == <<"0", "1", "2", "3", "4", "5", "6", "7", "8", "9">>

\* typeof type === "number"
IsNumber(type) == \E n \in 1..Len(Digits) : Digits[n] = type

\* type PredictionType
PredictionType == {"big", "small", "red", "green", "blue"} \cup {Digits[n] : n \in 1..Len(Digits)}

\* const colors = ["red", "green", "blue"]
Colors == <<"red", "green", "blue">>

\* mutant: the two low bits of the integer are dropped before the reduction
GetRandomIntHighBits(x, max) == (x \div 4) % max

\* array[0] % max, array[0] the Uint32 that crypto.getRandomValues drew
GetRandomInt(x, max) == x % max

\* Math.floor(Math.random() * max), Math.random() being k / 2^EntropyBits
MathRandomInt(k, max) == (k * max) \div (2 ^ EntropyBits)

\* the values getRandomInt(max) can return, by either path, from the
\* sampled entropy
Entropy == 0..(2 ^ EntropyBits - 1)

\* mutant: the last value of the range is never returned
RandomIntsShort(max) ==
    {GetRandomInt(x, max - 1) : x \in Entropy} \cup {MathRandomInt(k, max - 1) : k \in Entropy}

RandomInts(max) ==
    {GetRandomInt(x, max) : x \in Entropy} \cup {MathRandomInt(k, max) : k \in Entropy}

\* const number = getRandomInt(10)
GeneratedNumbers == RandomInts(10)

\* const color = colors[getRandomInt(3)]
GeneratedColors == {Colors[i + 1] : i \in RandomInts(Len(Colors))}

\* PREDICTION_MULTIPLIERS, in tenths
PREDICTION_MULTIPLIERS ==
    [big |-> 19, small |-> 19, red |-> 28, green |-> 28, blue |-> 28, number |-> 90]

Min(a, b) == IF a < b THEN a ELSE b

\* the useState initial value
InitialGameState ==
    [currentRound |-> [duration |-> 10, timeRemaining |-> 10, phase |-> "betting"],
     activePredictions |-> <<>>,
     lockedPredictions |-> <<>>,
     lastResult |-> <<>>,
     history |-> <<>>,
     settings |-> [soundEnabled |-> TRUE, animationsEnabled |-> TRUE],
     mode |-> "demo",
     selectedDuration |-> 10,
     bettingActivity |-> <<>>]

----------------------------------------------------------------------------
\* Pure functions and updaters

Phase(s) == s.currentRound.phase

TimeRemaining(s) == s.currentRound.timeRemaining

\* category chosen by addPrediction
CategoryOf(type) ==
    IF type = "big" \/ type = "small" THEN "size"
    ELSE IF type = "red" \/ type = "green" \/ type = "blue" THEN "color"
    ELSE "number"

\* mutant: a number prediction is paid like a color
MultiplierOfColorForNumber(type) ==
    IF IsNumber(type) THEN PREDICTION_MULTIPLIERS.red
    ELSE PREDICTION_MULTIPLIERS[type]

\* multiplier chosen by addPrediction
MultiplierOf(type) ==
    IF IsNumber(type) THEN PREDICTION_MULTIPLIERS.number
    ELSE PREDICTION_MULTIPLIERS[type]

\* the object pushed by addPrediction
MakePrediction(type) ==
    [type |-> type, category |-> CategoryOf(type), multiplier |-> MultiplierOf(type)]

\* mutant: 'big' needs a number above 5
IsWinAboveFive(result, prediction) ==
    IF prediction.category = "size"
    THEN \/ prediction.type = "big" /\ result.number > 5
         \/ prediction.type = "small" /\ result.number < 5
    ELSE IF prediction.category = "color"
    THEN prediction.type = result.color
    ELSE IF prediction.category = "number"
    THEN prediction.type = Digits[result.number + 1]
    ELSE FALSE

\* the isWin test of checkWinnings
IsWin(result, prediction) ==
    IF prediction.category = "size"
    THEN \/ prediction.type = "big" /\ result.number >= 5
         \/ prediction.type = "small" /\ result.number < 5
    ELSE IF prediction.category = "color"
    THEN prediction.type = result.color
    ELSE IF prediction.category = "number"
    THEN prediction.type = Digits[result.number + 1]
    ELSE FALSE

\* mutant: the predictions are evaluated against the stored lastResult, once
\* there is one
checkWinningsOfLastResult(result, predictions) ==
    SelectSeq(predictions,
              LAMBDA p : IsWin(IF prev.lastResult = <<>> THEN result
                               ELSE prev.lastResult[1], p))

\* mutant: the evaluation stops at the first winner
checkWinningsFirstOnly(result, predictions) ==
    LET winners == SelectSeq(predictions, LAMBDA p : IsWin(result, p))
    IN SubSeq(winners, 1, Min(Len(winners), 1))

checkWinnings(result, predictions) ==
    SelectSeq(predictions, LAMBDA p : IsWin(result, p))

\* isWin of a row of the locked predictions: checkWinnings on the
\* prediction alone
IsWinDisplayed(result, pred) == Len(checkWinnings(result, <<pred>>)) > 0

\* mutant: the countdown counts up
TickUpdateCountsUp(s) ==
    IF s.currentRound.timeRemaining + 1 <= 0
    THEN [s EXCEPT !.currentRound.timeRemaining = 0,
                   !.currentRound.phase = "resolving",
                   !.lockedPredictions = s.activePredictions]
    ELSE [s EXCEPT !.currentRound.timeRemaining = s.currentRound.timeRemaining + 1]

\* mutant: the countdown never moves
TickUpdateStuck(s) ==
    LET newTime == s.currentRound.timeRemaining IN
    IF newTime <= 0
    THEN [s EXCEPT !.currentRound.timeRemaining = 0,
                   !.currentRound.phase = "resolving",
                   !.lockedPredictions = s.activePredictions]
    ELSE [s EXCEPT !.currentRound.timeRemaining = newTime]

\* mutant: the timeout keeps what the last confirm locked
TickUpdateKeepsLocked(s) ==
    LET newTime == s.currentRound.timeRemaining - 1 IN
    IF newTime <= 0
    THEN [s EXCEPT !.currentRound.timeRemaining = 0,
                   !.currentRound.phase = "resolving"]
    ELSE [s EXCEPT !.currentRound.timeRemaining = newTime]

\* mutant: the timeout goes straight to showing-result
TickUpdateSkipsResolving(s) ==
    LET newTime == s.currentRound.timeRemaining - 1 IN
    IF newTime <= 0
    THEN [s EXCEPT !.currentRound.timeRemaining = 0,
                   !.currentRound.phase = "showing-result",
                   !.lockedPredictions = s.activePredictions]
    ELSE [s EXCEPT !.currentRound.timeRemaining = newTime]

\* mutant: the countdown shows 0 for a second before the timeout
TickUpdateShowsZero(s) ==
    LET newTime == s.currentRound.timeRemaining - 1 IN
    IF newTime < 0
    THEN [s EXCEPT !.currentRound.timeRemaining = 0,
                   !.currentRound.phase = "resolving",
                   !.lockedPredictions = s.activePredictions]
    ELSE [s EXCEPT !.currentRound.timeRemaining = newTime]

\* the updater of the interval callback
TickUpdate(s) ==
    LET newTime == s.currentRound.timeRemaining - 1 IN
    IF newTime <= 0
    THEN [s EXCEPT !.currentRound.timeRemaining = 0,
                   !.currentRound.phase = "resolving",
                   !.lockedPredictions = s.activePredictions]
    ELSE [s EXCEPT !.currentRound.timeRemaining = newTime]

\* mutant: the next round repeats the duration of the round that ended
StartNewRoundUpdateSameDuration(s) ==
    [s EXCEPT !.currentRound = [duration |-> s.currentRound.duration,
                                timeRemaining |-> s.currentRound.duration,
                                phase |-> "betting"],
              !.activePredictions = <<>>,
              !.lockedPredictions = <<>>,
              !.bettingActivity = <<>>]

\* mutant: the new round keeps the locked predictions of the old one
StartNewRoundUpdateKeepsLocked(s) ==
    [s EXCEPT !.currentRound = [duration |-> s.selectedDuration,
                                timeRemaining |-> s.selectedDuration,
                                phase |-> "betting"],
              !.activePredictions = <<>>,
              !.bettingActivity = <<>>]

\* mutant: the new round starts without a last result
StartNewRoundUpdateClearsResult(s) ==
    [s EXCEPT !.currentRound = [duration |-> s.selectedDuration,
                                timeRemaining |-> s.selectedDuration,
                                phase |-> "betting"],
              !.activePredictions = <<>>,
              !.lockedPredictions = <<>>,
              !.bettingActivity = <<>>,
              !.lastResult = <<>>]

\* the updater of startNewRound
StartNewRoundUpdate(s) ==
    [s EXCEPT !.currentRound = [duration |-> s.selectedDuration,
                                timeRemaining |-> s.selectedDuration,
                                phase |-> "betting"],
              !.activePredictions = <<>>,
              !.lockedPredictions = <<>>,
              !.bettingActivity = <<>>]

\* mutant: the countdown is restarted at the new duration, the round's
\* duration is left as it was
ChangeDurationUpdateKeepsDuration(s, newDuration) ==
    [s EXCEPT !.selectedDuration = newDuration,
              !.currentRound =
                  IF s.currentRound.phase = "betting"
                  THEN [s.currentRound EXCEPT !.timeRemaining = newDuration]
                  ELSE s.currentRound]

\* mutant: the new duration is applied to the round in every phase
ChangeDurationUpdateAnyPhase(s, newDuration) ==
    [s EXCEPT !.selectedDuration = newDuration,
              !.currentRound = [s.currentRound EXCEPT !.duration = newDuration,
                                                      !.timeRemaining = newDuration]]

\* mutant: the running countdown is not restarted
ChangeDurationUpdateKeepsTime(s, newDuration) ==
    [s EXCEPT !.selectedDuration = newDuration,
              !.currentRound =
                  IF s.currentRound.phase = "betting"
                  THEN [s.currentRound EXCEPT !.duration = newDuration]
                  ELSE s.currentRound]

\* mutant: the new duration applies from the next round on
ChangeDurationUpdateNextRound(s, newDuration) ==
    [s EXCEPT !.selectedDuration = newDuration]

\* the updater of changeDuration
ChangeDurationUpdate(s, newDuration) ==
    [s EXCEPT !.selectedDuration = newDuration,
              !.currentRound =
                  IF s.currentRound.phase = "betting"
                  THEN [s.currentRound EXCEPT !.duration = newDuration,
                                              !.timeRemaining = newDuration]
                  ELSE s.currentRound]

\* mutant: slice(0, 10), which keeps eleven results
EndRoundUpdateKeepsTen(s, result) ==
    [s EXCEPT !.currentRound.phase = "showing-result",
              !.lastResult = <<result>>,
              !.history = <<result>> \o SubSeq(s.history, 1, Min(Len(s.history), HistoryKeep + 1))]

\* mutant: the result is pushed onto the history only
EndRoundUpdateHistoryOnly(s, result) ==
    [s EXCEPT !.currentRound.phase = "showing-result",
              !.history = <<result>> \o SubSeq(s.history, 1, Min(Len(s.history), HistoryKeep))]

\* the updater of endRound
EndRoundUpdate(s, result) ==
    [s EXCEPT !.currentRound.phase = "showing-result",
              !.lastResult = <<result>>,
              !.history = <<result>> \o SubSeq(s.history, 1, Min(Len(s.history), HistoryKeep))]

\* mutant: the new prediction is added without removing its category
AddPredictionUpdateNoFilter(s, type) ==
    [s EXCEPT !.activePredictions = Append(s.activePredictions, MakePrediction(type))]

\* mutant: the new prediction is placed first
AddPredictionUpdateFirst(s, type) ==
    LET category == CategoryOf(type)
        filtered == SelectSeq(s.activePredictions, LAMBDA p : p.category # category)
    IN [s EXCEPT !.activePredictions = <<MakePrediction(type)>> \o filtered]

\* the updater of addPrediction
AddPredictionUpdate(s, type) ==
    LET category == CategoryOf(type)
        filtered == SelectSeq(s.activePredictions, LAMBDA p : p.category # category)
    IN [s EXCEPT !.activePredictions = Append(filtered, MakePrediction(type))]

\* the updater of placePredictions
PlacePredictionsUpdate(s) ==
    [s EXCEPT !.lockedPredictions = s.activePredictions]

\* mutant: CLEAR ALL also drops what a confirm has locked
ClearPredictionsUpdateLocked(s) ==
    [s EXCEPT !.activePredictions = <<>>, !.lockedPredictions = <<>>]

\* the updater of the betting-activity interval:
\* [newActivity, ...prev.bettingActivity.slice(0, 4)]
BettingActivityUpdate(s, newActivity) ==
    [s EXCEPT !.bettingActivity =
                  <<newActivity>> \o SubSeq(s.bettingActivity, 1,
                                            Min(Len(s.bettingActivity), ActivityKeep))]

\* the updater of the Sound switch
SoundUpdate(s, checked) ==
    [s EXCEPT !.settings.soundEnabled = checked]

\* the updater of the Effects switch
AnimationsUpdate(s, checked) ==
    [s EXCEPT !.settings.animationsEnabled = checked]

\* the updater of clearPredictions
ClearPredictionsUpdate(s) ==
    [s EXCEPT !.activePredictions = <<>>]

\* mutant: only a negative countdown closes betting
AddPredictionClosedNegative(g) == g.currentRound.timeRemaining < 0

\* the first guard of addPrediction, read from the closure's gameState
AddPredictionClosed(g) ==
    g.currentRound.phase # "betting" \/ g.currentRound.timeRemaining = 0

\* mutant: the length test never fires
PlaceNoneSelectedNegative(g) == Len(g.activePredictions) < 0

\* the first guard of placePredictions
PlaceNoneSelected(g) == Len(g.activePredictions) = 0

\* mutant: only a negative countdown is rejected
PlaceTimeUpNegative(g) == g.currentRound.timeRemaining < 0

\* the second guard of placePredictions
PlaceTimeUp(g) == g.currentRound.timeRemaining = 0

----------------------------------------------------------------------------
\* The timer effect: useEffect(..., [gameState.currentRound.phase, endRound])

\* mutant: the effect depends on the whole gameState
DepsChangedAnyField(old, new, refChanged) ==
    \/ old # new
    \/ refChanged

\* mutant: the effect has no dependency array and runs after every render
DepsChangedAlways(old, new, refChanged) == TRUE

\* endRound is re-created when lockedPredictions (by reference) or
\* generateResult (currentRound.duration) changes
DepsChanged(old, new, refChanged) ==
    \/ old.currentRound.phase # new.currentRound.phase
    \/ old.currentRound.duration # new.currentRound.duration
    \/ refChanged

\* mutant: generateResult reads the duration selected for the next round
TimerEffectSelectedDuration(old, new, refChanged) ==
    IF DepsChanged(old, new, refChanged)
    THEN /\ intervalRef' = IF new.currentRound.phase = "betting"
                           THEN <<TickQuanta>> ELSE <<>>
         /\ endRoundTimers' =
                IF new.currentRound.phase = "resolving"
                THEN Append(endRoundTimers,
                            [left |-> ResolveQuanta,
                             duration |-> new.selectedDuration,
                             locked |-> new.lockedPredictions])
                ELSE endRoundTimers
    ELSE UNCHANGED <<intervalRef, endRoundTimers>>

\* mutant: the cleanup does not clear the interval
TimerEffectKeepsInterval(old, new, refChanged) ==
    IF DepsChanged(old, new, refChanged)
    THEN /\ intervalRef' = IF new.currentRound.phase = "betting"
                           THEN <<TickQuanta>> ELSE intervalRef
         /\ endRoundTimers' =
                IF new.currentRound.phase = "resolving"
                THEN Append(endRoundTimers,
                            [left |-> ResolveQuanta,
                             duration |-> new.currentRound.duration,
                             locked |-> new.lockedPredictions])
                ELSE endRoundTimers
    ELSE UNCHANGED <<intervalRef, endRoundTimers>>

\* cleanup of the previous run followed by the body of the new run
TimerEffect(old, new, refChanged) ==
    IF DepsChanged(old, new, refChanged)
    THEN /\ intervalRef' = IF new.currentRound.phase = "betting"
                           THEN <<TickQuanta>> ELSE <<>>
         /\ endRoundTimers' =
                IF new.currentRound.phase = "resolving"
                THEN Append(endRoundTimers,
                            [left |-> ResolveQuanta,
                             duration |-> new.currentRound.duration,
                             locked |-> new.lockedPredictions])
                ELSE endRoundTimers
    ELSE UNCHANGED <<intervalRef, endRoundTimers>>

Remove(seq, i) == SubSeq(seq, 1, i - 1) \o SubSeq(seq, i + 1, Len(seq))

----------------------------------------------------------------------------
\* Page and LoadingScreen.  Time is counted in quanta of 20 ms, the
\* largest unit that divides every delay of the screen.

\* setTimeout(..., 800) of the initializing state
InitializingQuanta == 40
\* setInterval(..., 60) of the loading state
ProgressQuanta == 3
\* setTimeout(..., 300) to the ready state, and setTimeout(onSkip, 300)
ReadyDelayQuanta == 15
SkipQuanta == 15
\* setTimeout(handleComplete, 2000) of the ready state
ReadyQuanta == 100
\* setTimeout(onComplete, 500)
CompleteQuanta == 25

\* progress is counted in tenths of a percent
ProgressFull == 1000

\* mutant: the same increment in every band
ProgressIncrementFlat(p) == 20

\* the increment of the progress updater
ProgressIncrement(p) ==
    IF p < 300 THEN 20 ELSE IF p < 700 THEN 15 ELSE IF p < 950 THEN 8 ELSE 3

\* useState of Page and of LoadingScreen, the timers of the three effects
\* (<<>>: none, <<q>>: q quanta left), the timeouts of the updater and of
\* the two handlers, and the number of times Page's callbacks were invoked
InitialLoading ==
    [isLoadingComplete |-> FALSE,
     loadingState |-> "initializing",
     progress |-> 0,
     isExiting |-> FALSE,
     timer1 |-> <<InitializingQuanta>>,
     interval |-> <<>>,
     readyDelay |-> <<>>,
     timer |-> <<>>,
     completeTimers |-> <<>>,
     skipTimers |-> <<>>,
     skips |-> 0,
     onCompleteCalls |-> 0,
     onSkipCalls |-> 0]

\* the screen after the automatic path has run to its end: Page renders
\* PredictionGame
LoadingCompleted ==
    [InitialLoading EXCEPT
        !.isLoadingComplete = TRUE,
        !.loadingState = "ready",
        !.progress = ProgressFull,
        !.isExiting = TRUE,
        !.timer1 = <<>>,
        !.onCompleteCalls = 1]

\* setIsLoadingComplete(true): Page stops rendering LoadingScreen, and the
\* cleanups of its three effects run
Unmount(l) ==
    [l EXCEPT !.isLoadingComplete = TRUE,
              !.timer1 = <<>>,
              !.interval = <<>>,
              !.timer = <<>>]

\* a setState of LoadingScreen has an effect only while it is mounted
Mounted(l) == ~l.isLoadingComplete

Due(t) == t # <<>> /\ t[1] = 0

Elapse(t) == [i \in 1..Len(t) |-> t[i] - 1]

LoadingTimers(l) ==
    l.timer1 \o l.interval \o l.readyDelay \o l.timer \o l.completeTimers
        \o l.skipTimers

----------------------------------------------------------------------------
\* Initial state: the first render has run and its effect has created the
\* countdown interval

\* no call of checkWinnings is under examination
NoCall == [result |-> <<>>, predictions |-> <<>>, returned |-> <<>>]

Init ==
    /\ prev = InitialGameState
    /\ gameState = InitialGameState
    /\ intervalRef = <<TickQuanta>>
    /\ endRoundTimers = <<>>
    /\ newRoundTimers = <<>>
    /\ renderPending = FALSE
    /\ lockedReplaced = FALSE
    /\ toast = "none"
    /\ totalWinnings = 0
    /\ clock = 0
    /\ call = NoCall
    /\ loading = LoadingCompleted

----------------------------------------------------------------------------
\* Timer callbacks

\* the setInterval callback
Tick ==
    /\ intervalRef = <<0>>
    /\ prev' = TickUpdate(prev)
    /\ intervalRef' = <<TickQuanta>>
    /\ renderPending' = TRUE
    /\ lockedReplaced' = (lockedReplaced \/ prev.currentRound.timeRemaining - 1 <= 0)
    /\ toast' = "none"
    /\ totalWinnings' = 0
    /\ UNCHANGED <<gameState, endRoundTimers, newRoundTimers, clock, call, loading>>

\* the toast of endRound
EndRoundToast(result, locked) ==
    IF Len(checkWinnings(result, locked)) > 0 THEN "winner"
    ELSE IF Len(locked) > 0 THEN "try-again"
    ELSE "none"

\* winners.reduce((sum, w) => sum + w.multiplier, 0)
RECURSIVE TotalWinnings(_)
TotalWinnings(winners) ==
    IF winners = <<>> THEN 0
    ELSE TotalWinnings(SubSeq(winners, 1, Len(winners) - 1))
         + winners[Len(winners)].multiplier

\* mutant: the multipliers of all locked predictions are added up
EndRoundTotalAllLocked(result, locked) ==
    IF Len(checkWinnings(result, locked)) > 0
    THEN TotalWinnings(locked)
    ELSE 0

\* the total in the toast of endRound
EndRoundTotal(result, locked) ==
    IF Len(checkWinnings(result, locked)) > 0
    THEN TotalWinnings(checkWinnings(result, locked))
    ELSE 0

\* the setTimeout(endRound, 1500) callback; generateResult draws number and
\* color.  The capped specifications stop resolving after `rounds` rounds;
\* without the cap the clock stays at `rounds` once it has reached it.
EndRound(numbers, colors, capped, rounds) ==
    /\ capped => clock < rounds
    /\ \E i \in 1..Len(endRoundTimers), number \in numbers, color \in colors :
        LET timer == endRoundTimers[i]
            result == [number |-> number, color |-> color,
                       timestamp |-> Min(clock + 1, rounds),
                       duration |-> timer.duration]
        IN /\ timer.left = 0
           /\ prev' = EndRoundUpdate(prev, result)
           /\ toast' = EndRoundToast(result, timer.locked)
           /\ totalWinnings' = EndRoundTotal(result, timer.locked)
           /\ endRoundTimers' = Remove(endRoundTimers, i)
           /\ newRoundTimers' = Append(newRoundTimers, ResultQuanta)
    /\ clock' = Min(clock + 1, rounds)
    /\ renderPending' = TRUE
    /\ UNCHANGED <<gameState, intervalRef, lockedReplaced, call, loading>>

\* the setTimeout(startNewRound, 3000) callback
StartNewRound ==
    /\ \E i \in 1..Len(newRoundTimers) :
        /\ newRoundTimers[i] = 0
        /\ newRoundTimers' = Remove(newRoundTimers, i)
    /\ prev' = StartNewRoundUpdate(prev)
    /\ renderPending' = TRUE
    /\ lockedReplaced' = TRUE
    /\ toast' = "none"
    /\ totalWinnings' = 0
    /\ UNCHANGED <<gameState, intervalRef, endRoundTimers, clock, call, loading>>

\* React renders the updates queued by timer callbacks and runs the effect
Render ==
    /\ renderPending
    /\ gameState' = prev
    /\ TimerEffect(gameState, prev, lockedReplaced)
    /\ renderPending' = FALSE
    /\ lockedReplaced' = FALSE
    /\ toast' = "none"
    /\ totalWinnings' = 0
    /\ UNCHANGED <<prev, newRoundTimers, clock, call, loading>>

TimerDue ==
    \/ intervalRef = <<0>>
    \/ \E i \in 1..Len(endRoundTimers) : endRoundTimers[i].left = 0
    \/ \E i \in 1..Len(newRoundTimers) : newRoundTimers[i] = 0

\* 500 ms pass
Advance ==
    /\ ~renderPending
    /\ ~TimerDue
    /\ intervalRef # <<>> \/ endRoundTimers # <<>> \/ newRoundTimers # <<>>
    /\ intervalRef' = IF intervalRef = <<>> THEN <<>> ELSE <<intervalRef[1] - 1>>
    /\ endRoundTimers' =
           [i \in 1..Len(endRoundTimers) |->
               [endRoundTimers[i] EXCEPT !.left = endRoundTimers[i].left - 1]]
    /\ newRoundTimers' = [i \in 1..Len(newRoundTimers) |-> newRoundTimers[i] - 1]
    /\ toast' = "none"
    /\ totalWinnings' = 0
    /\ UNCHANGED <<prev, gameState, renderPending, lockedReplaced, clock, call, loading>>

----------------------------------------------------------------------------
\* User intents (click handlers)

\* an accepted intent: the updater joins the queue and is rendered at once
Dispatch(updated_prev, updated_gameState, refChanged) ==
    /\ prev' = updated_prev
    /\ gameState' = updated_gameState
    /\ TimerEffect(gameState, updated_gameState, refChanged)
    /\ lockedReplaced' = (lockedReplaced \/ (refChanged /\ renderPending))
    /\ totalWinnings' = 0
    /\ UNCHANGED <<newRoundTimers, renderPending, clock, call, loading>>

Rejected(message) ==
    /\ toast' = message
    /\ totalWinnings' = 0
    /\ UNCHANGED <<prev, gameState, intervalRef, endRoundTimers, newRoundTimers,
                   renderPending, lockedReplaced, clock, call, loading>>

addPrediction(type) ==
    IF AddPredictionClosed(gameState)
    THEN Rejected("betting-closed")
    ELSE /\ Dispatch(AddPredictionUpdate(prev, type),
                     AddPredictionUpdate(gameState, type), FALSE)
         /\ toast' = "none"

placePredictions ==
    IF PlaceNoneSelected(gameState)
    THEN Rejected("select-one")
    ELSE IF PlaceTimeUp(gameState)
    THEN Rejected("time-up")
    ELSE /\ Dispatch(PlacePredictionsUpdate(prev),
                     PlacePredictionsUpdate(gameState), TRUE)
         /\ toast' = "placed"

clearPredictions ==
    /\ Dispatch(ClearPredictionsUpdate(prev), ClearPredictionsUpdate(gameState), FALSE)
    /\ toast' = "none"

changeDuration(newDuration) ==
    /\ Dispatch(ChangeDurationUpdate(prev, newDuration),
                ChangeDurationUpdate(gameState, newDuration), FALSE)
    /\ toast' = "duration"

\* the callback of the betting-activity interval.  The interval exists
\* while the last render had phase betting and time remaining; its period
\* is drawn at random between 1 and 4 seconds at every render that changes
\* timeRemaining, so the callback is taken to fire at any moment the
\* interval exists.  An activity is known by its betType.
BettingActivityInterval(betTypes) ==
    /\ Phase(gameState) = "betting"
    /\ TimeRemaining(gameState) > 0
    /\ \E betType \in betTypes :
           prev' = BettingActivityUpdate(prev, [betType |-> betType])
    /\ renderPending' = TRUE
    /\ toast' = "none"
    /\ totalWinnings' = 0
    /\ UNCHANGED <<gameState, intervalRef, endRoundTimers, newRoundTimers,
                   lockedReplaced, clock, call, loading>>

\* onCheckedChange of the Sound switch
onSoundCheckedChange(checked) ==
    /\ Dispatch(SoundUpdate(prev, checked), SoundUpdate(gameState, checked), FALSE)
    /\ toast' = "none"

\* onCheckedChange of the Effects switch
onAnimationsCheckedChange(checked) ==
    /\ Dispatch(AnimationsUpdate(prev, checked), AnimationsUpdate(gameState, checked), FALSE)
    /\ toast' = "none"

----------------------------------------------------------------------------
\* Specifications

AddPredictionOf(kinds) == \E type \in kinds : addPrediction(type)

ChangeDurationOf(durations) == \E d \in durations : changeDuration(d)

NextOf(kinds, durations, numbers, colors, capped, rounds) ==
    \/ Tick
    \/ EndRound(numbers, colors, capped, rounds)
    \/ StartNewRound
    \/ Render
    \/ Advance
    \/ AddPredictionOf(kinds)
    \/ placePredictions
    \/ clearPredictions
    \/ ChangeDurationOf(durations)

Next == NextOf(SpecKinds, RoundDuration, SpecNumbers, SpecColors, TRUE, MaxRounds)

Spec == Init /\ [][Next]_vars

----------------------------------------------------------------------------
\* The engine under fair scheduling: time passes, a due timer fires, a
\* scheduled render runs.  Resolutions are not capped; the inputs are few.

LiveKinds == {"big"}
LiveDurations == {10}
LiveNumbers == {7}
LiveColors == {"red"}

LiveNext == NextOf(LiveKinds, LiveDurations, LiveNumbers, LiveColors, FALSE, MaxRounds)

LiveSpec ==
    /\ Init
    /\ [][LiveNext]_vars
    /\ WF_vars(Advance)
    /\ WF_vars(Tick)
    /\ WF_vars(EndRound(LiveNumbers, LiveColors, FALSE, MaxRounds))
    /\ WF_vars(StartNewRound)
    /\ WF_vars(Render)

----------------------------------------------------------------------------
\* The engine with one duration and one result, and bets of all three
\* categories

PredKinds == {"big", "small", "red", "7"}
PredDurations == {10}
PredNumbers == {7}
PredColors == {"red"}

PredNext == NextOf(PredKinds, PredDurations, PredNumbers, PredColors, TRUE, MaxRounds)

PredSpec == Init /\ [][PredNext]_vars

----------------------------------------------------------------------------
\* A round left alone: the state after changeDuration(D) and some
\* addPrediction calls at the start of the first round, then timers only

QuietBets ==
    {<<>>, <<MakePrediction("big")>>, <<MakePrediction("big"), MakePrediction("red")>>}

QuietInit ==
    /\ \E D \in RoundDuration, bets \in QuietBets :
        /\ prev = [InitialGameState EXCEPT
                       !.currentRound.duration = D,
                       !.currentRound.timeRemaining = D,
                       !.selectedDuration = D,
                       !.activePredictions = bets]
        /\ toast = "none"
    /\ totalWinnings = 0
    /\ call = NoCall
    /\ loading = LoadingCompleted
    /\ gameState = prev
    /\ intervalRef = <<TickQuanta>>
    /\ endRoundTimers = <<>>
    /\ newRoundTimers = <<>>
    /\ renderPending = FALSE
    /\ lockedReplaced = FALSE
    /\ clock = 0

QuietNext ==
    \/ Tick
    \/ EndRound(SpecNumbers, SpecColors, TRUE, MaxRounds)
    \/ StartNewRound
    \/ Render
    \/ Advance

QuietSpec == QuietInit /\ [][QuietNext]_vars

----------------------------------------------------------------------------
\* The engine left to its timers for MaxHistory rounds, each result drawn
\* from two colors

HistNumbers == {7}
HistColors == {"red", "blue"}

HistNext ==
    \/ Tick
    \/ EndRound(HistNumbers, HistColors, TRUE, MaxHistory)
    \/ StartNewRound
    \/ Render
    \/ Advance

HistSpec == Init /\ [][HistNext]_vars

----------------------------------------------------------------------------
\* checkWinnings as a function of its arguments: every result and every
\* list of at most MaxCallLen predictions, each as addPrediction makes it

CallResults ==
    {[number |-> number, color |-> Colors[c], timestamp |-> 0, duration |-> 10] :
        number \in 0..9, c \in 1..Len(Colors)}

CallPredictions ==
    UNION {[1..n -> {MakePrediction(type) : type \in PredictionType}] :
              n \in 0..MaxCallLen}

CallInit ==
    /\ prev = InitialGameState
    /\ gameState = InitialGameState
    /\ intervalRef = <<TickQuanta>>
    /\ endRoundTimers = <<>>
    /\ newRoundTimers = <<>>
    /\ renderPending = FALSE
    /\ lockedReplaced = FALSE
    /\ toast = "none"
    /\ totalWinnings = 0
    /\ clock = 0
    /\ loading = LoadingCompleted
    /\ \E result \in CallResults, predictions \in CallPredictions :
           call = [result |-> <<result>>, predictions |-> predictions,
                   returned |-> <<>>]

\* the call returns
CheckWinningsCall ==
    /\ call.result # <<>>
    /\ call.returned = <<>>
    /\ call' = [call EXCEPT
                   !.returned = <<checkWinnings(call.result[1], call.predictions)>>]
    /\ UNCHANGED <<prev, gameState, intervalRef, endRoundTimers, newRoundTimers,
                   renderPending, lockedReplaced, toast, totalWinnings, clock,
                   loading>>

CallSpec == CallInit /\ [][CheckWinningsCall]_vars

----------------------------------------------------------------------------
\* The betting controls alone, with every prediction type: predictions are
\* picked, confirmed and cleared at the start of the first round

BetNext ==
    \/ AddPredictionOf(PredictionType)
    \/ placePredictions
    \/ clearPredictions

BetSpec == Init /\ [][BetNext]_vars

----------------------------------------------------------------------------
\* The engine left to its timers, every result that generateResult can
\* return being drawn

DrawNext ==
    \/ Tick
    \/ EndRound(GeneratedNumbers, GeneratedColors, TRUE, MaxRounds)
    \/ StartNewRound
    \/ Render
    \/ Advance

DrawSpec == Init /\ [][DrawNext]_vars

----------------------------------------------------------------------------
\* The engine left to its timers, with the cosmetic updates: fake betting
\* activity and the two settings switches

ActivityBetTypes == {"Big", "Number 7"}

CosmeticNext ==
    \/ Tick
    \/ EndRound(SpecNumbers, SpecColors, TRUE, MaxRounds)
    \/ StartNewRound
    \/ Render
    \/ Advance
    \/ BettingActivityInterval(ActivityBetTypes)
    \/ \E checked \in BOOLEAN : onSoundCheckedChange(checked)
    \/ \E checked \in BOOLEAN : onAnimationsCheckedChange(checked)

CosmeticSpec == Init /\ [][CosmeticNext]_vars

----------------------------------------------------------------------------
\* checkWinnings called twice with the same arguments at any two moments
\* of a round that is left to its timers

PureResults ==
    {[number |-> 7, color |-> "red", timestamp |-> 0, duration |-> 10],
     [number |-> 3, color |-> "blue", timestamp |-> 0, duration |-> 10]}

PurePredictions ==
    {<<MakePrediction("big")>>,
     <<MakePrediction("small"), MakePrediction("red")>>,
     <<MakePrediction("blue"), MakePrediction("7"), MakePrediction("big")>>}

PureInit ==
    /\ \E bets \in QuietBets :
           prev = [InitialGameState EXCEPT !.activePredictions = bets]
    /\ gameState = prev
    /\ intervalRef = <<TickQuanta>>
    /\ endRoundTimers = <<>>
    /\ newRoundTimers = <<>>
    /\ renderPending = FALSE
    /\ lockedReplaced = FALSE
    /\ toast = "none"
    /\ totalWinnings = 0
    /\ clock = 0
    /\ loading = LoadingCompleted
    /\ \E result \in PureResults, predictions \in PurePredictions :
           call = [result |-> <<result>>, predictions |-> predictions,
                   returned |-> <<>>]

\* the second call, with the arguments of the first, returns
CheckWinningsAgain ==
    /\ Len(call.returned) = 1
    /\ call' = [call EXCEPT
                   !.returned = Append(@, checkWinnings(call.result[1], call.predictions))]
    /\ UNCHANGED <<prev, gameState, intervalRef, endRoundTimers, newRoundTimers,
                   renderPending, lockedReplaced, toast, totalWinnings, clock,
                   loading>>

PureNext ==
    \/ Tick
    \/ EndRound(SpecNumbers, SpecColors, TRUE, MaxRounds)
    \/ StartNewRound
    \/ Render
    \/ Advance
    \/ CheckWinningsCall
    \/ CheckWinningsAgain

PureSpec == PureInit /\ [][PureNext]_vars

----------------------------------------------------------------------------
\* Picking and clearing predictions of every type at the start of the first
\* round

PickNext ==
    \/ AddPredictionOf(PredictionType)
    \/ clearPredictions

PickSpec == Init /\ [][PickNext]_vars

----------------------------------------------------------------------------
\* Page and LoadingScreen: timer callbacks and the Skip button

\* the rest of the program while the loading screen is examined
GameUntouched ==
    UNCHANGED <<prev, gameState, intervalRef, endRoundTimers, newRoundTimers,
                renderPending, lockedReplaced, toast, totalWinnings, clock,
                call>>

\* Page renders with isLoadingComplete set.  The first time it replaces
\* LoadingScreen by PredictionGame, whose first render has the initial
\* GameState and whose timer effect creates the countdown interval; a later
\* delivery sets the same value and renders nothing new.
MountGame ==
    /\ intervalRef' = IF Mounted(loading) THEN <<TickQuanta>> ELSE intervalRef
    /\ UNCHANGED <<prev, gameState, endRoundTimers, newRoundTimers,
                   renderPending, lockedReplaced, toast, totalWinnings, clock,
                   call>>

\* the setTimeout(..., 800) callback: setLoadingState('loading'), and the
\* effect of the loading state creates the progress interval
InitializingTimeout ==
    /\ Due(loading.timer1)
    /\ loading' = [loading EXCEPT !.timer1 = <<>>,
                                  !.loadingState = "loading",
                                  !.interval = <<ProgressQuanta>>]
    /\ GameUntouched

\* the setInterval(..., 60) callback and its updater
ProgressInterval ==
    /\ Due(loading.interval)
    /\ loading' =
           IF loading.progress >= ProgressFull
           THEN [loading EXCEPT !.interval = <<>>,
                                !.readyDelay = <<ReadyDelayQuanta>>]
           ELSE [loading EXCEPT
                    !.interval = <<ProgressQuanta>>,
                    !.progress = Min(@ + ProgressIncrement(@), ProgressFull)]
    /\ GameUntouched

\* the setTimeout(..., 300) callback of the updater: setLoadingState('ready'),
\* and the effect of the ready state creates the timer of handleComplete
ReadyDelayTimeout ==
    /\ Due(loading.readyDelay)
    /\ loading' =
           IF Mounted(loading)
           THEN [loading EXCEPT !.readyDelay = <<>>,
                                !.loadingState = "ready",
                                !.interval = <<>>,
                                !.timer = <<ReadyQuanta>>]
           ELSE [loading EXCEPT !.readyDelay = <<>>]
    /\ GameUntouched

\* mutant: handleComplete starts the exit and calls nothing back
handleCompleteSilent ==
    /\ Due(loading.timer)
    /\ loading' = [loading EXCEPT !.timer = <<>>, !.isExiting = TRUE]
    /\ GameUntouched

\* the setTimeout(..., 2000) callback: handleComplete
handleComplete ==
    /\ Due(loading.timer)
    /\ loading' = [loading EXCEPT
                      !.timer = <<>>,
                      !.isExiting = TRUE,
                      !.completeTimers = Append(@, CompleteQuanta)]
    /\ GameUntouched

\* the setTimeout(..., 500) callback: onComplete is Page's
\* handleLoadingComplete
onComplete ==
    /\ Due(loading.completeTimers)
    /\ loading' = [Unmount(loading) EXCEPT
                      !.completeTimers = Tail(@),
                      !.onCompleteCalls = @ + 1]
    /\ MountGame

\* a click on the Skip button, which the screen shows for as long as it is
\* rendered
handleSkip ==
    /\ Mounted(loading)
    /\ loading.skips < MaxSkips
    /\ loading' = [loading EXCEPT
                      !.skips = @ + 1,
                      !.isExiting = TRUE,
                      !.skipTimers = Append(@, SkipQuanta)]
    /\ GameUntouched

\* the setTimeout(..., 300) callback of handleSkip: onSkip is Page's
\* handleSkipLoading
onSkip ==
    /\ Due(loading.skipTimers)
    /\ loading' = [Unmount(loading) EXCEPT
                      !.skipTimers = Tail(@),
                      !.onSkipCalls = @ + 1]
    /\ MountGame

\* 20 ms pass: no callback is due
LoadingAdvance ==
    /\ LoadingTimers(loading) # <<>>
    /\ \A i \in 1..Len(LoadingTimers(loading)) : LoadingTimers(loading)[i] > 0
    /\ loading' = [loading EXCEPT
                      !.timer1 = Elapse(@),
                      !.interval = Elapse(@),
                      !.readyDelay = Elapse(@),
                      !.timer = Elapse(@),
                      !.completeTimers = Elapse(@),
                      !.skipTimers = Elapse(@)]
    /\ GameUntouched

\* Page is constructed: LoadingScreen is rendered, PredictionGame is not yet
LoadInit ==
    /\ prev = InitialGameState
    /\ gameState = InitialGameState
    /\ intervalRef = <<>>
    /\ endRoundTimers = <<>>
    /\ newRoundTimers = <<>>
    /\ renderPending = FALSE
    /\ lockedReplaced = FALSE
    /\ toast = "none"
    /\ totalWinnings = 0
    /\ clock = 0
    /\ call = NoCall
    /\ loading = InitialLoading

LoadNext ==
    \/ InitializingTimeout
    \/ ProgressInterval
    \/ ReadyDelayTimeout
    \/ handleComplete
    \/ onComplete
    \/ handleSkip
    \/ onSkip
    \/ LoadingAdvance

LoadSpec == LoadInit /\ [][LoadNext]_vars

\* the timers of the screen fire and time passes; the Skip button need not
\* be clicked
LoadingTimersRun ==
    \/ InitializingTimeout
    \/ ProgressInterval
    \/ ReadyDelayTimeout
    \/ handleComplete
    \/ onComplete
    \/ onSkip
    \/ LoadingAdvance

FairLoadSpec == LoadInit /\ [][LoadNext]_vars /\ WF_vars(LoadingTimersRun)

----------------------------------------------------------------------------
\* Shorthands for the claims

\* sum of f[0], ..., f[n]
RECURSIVE SumTo(_, _)
SumTo(f, n) == IF n < 0 THEN 0 ELSE f[n] + SumTo(f, n - 1)

\* For each r in 0..max-1, the number of Uint32 values x that getRandomInt
\* reduces to r.  x is hi * 65536 + lo with 16-bit halves hi and lo, and
\* x % max is ((hi % max) * (65536 % max) + lo % max) % max: the halves are
\* counted by their own reductions and the pairs of reductions added up.
Preimages32(max) ==
    LET half == [a \in 0..(max - 1) |->
                    Cardinality({h \in 0..65535 : GetRandomInt(h, max) = a})]
        shift == GetRandomInt(65536, max)
    IN [r \in 0..(max - 1) |->
           SumTo([a \in 0..(max - 1) |->
                     SumTo([b \in 0..(max - 1) |->
                               IF GetRandomInt(a * shift + b, max) = r
                               THEN half[a] * half[b] ELSE 0],
                           max - 1)],
                 max - 1)]

\* getRandomInt(10) and getRandomInt(3)
NumberPreimages == Preimages32(10)
ColorPreimages == Preimages32(3)

NextPhase(phase) ==
    IF phase = "betting" THEN "resolving"
    ELSE IF phase = "resolving" THEN "showing-result"
    ELSE "betting"

\* a step of the endRound callback, whatever it draws
EndRoundStep == EndRound(0..9, {"red", "green", "blue"}, FALSE, MaxRounds)

\* the round that starts at a rollover
FreshRound(s) ==
    /\ Phase(s) = "betting"
    /\ TimeRemaining(s) = s.currentRound.duration
    /\ s.currentRound.duration = s.selectedDuration
    /\ s.activePredictions = <<>>
    /\ s.lockedPredictions = <<>>

----------------------------------------------------------------------------
\* C1: in every step the phase, both as the updaters see it and as it is
\* rendered, is unchanged or moves to the next phase of the cycle
\* betting -> resolving -> showing-result -> betting.
PhaseCycle ==
    [][/\ Phase(prev') \in {Phase(prev), NextPhase(Phase(prev))}
       /\ Phase(gameState') \in {Phase(gameState), NextPhase(Phase(gameState))}]_vars

\* a whole cycle has been walked: a second round is in betting
PhaseCycleWitness ==
    /\ clock >= 1
    /\ Phase(prev) = "betting"
    /\ Phase(gameState) = "betting"

TickKeepsFiring ==
    (<>[](Phase(prev) = "betting")) => []<><<Tick>>_vars

\* changeDuration is issued only finitely often
ChangeDurationCeases ==
    <>[][~ChangeDurationOf(RoundDuration)]_vars

QuietLifecycle ==
    /\ TimeRemaining(prev) = prev.currentRound.duration
    /\ [][/\ Tick =>
               /\ Phase(prev) = "betting"
               /\ IF TimeRemaining(prev) > 1
                  THEN /\ Phase(prev') = "betting"
                       /\ TimeRemaining(prev') = TimeRemaining(prev) - 1
                  ELSE Phase(prev') = "resolving"
          /\ EndRoundStep =>
               /\ Phase(prev) = "resolving"
               /\ Phase(prev') = "showing-result"
          /\ StartNewRound =>
               /\ Phase(prev) = "showing-result"
               /\ FreshRound(prev')
          /\ (~Tick /\ ~StartNewRound) => TimeRemaining(prev') = TimeRemaining(prev)]_vars

\* the rollover of a round that held predictions has just happened
QuietLifecycleWitness ==
    /\ clock >= 1
    /\ FreshRound(prev)
    /\ Phase(gameState) = "showing-result"
    /\ Len(gameState.lockedPredictions) = 2

\* the steps of an intent leave the state and the timers alone
IntentIgnored ==
    UNCHANGED <<prev, gameState, intervalRef, endRoundTimers, newRoundTimers,
                renderPending, lockedReplaced, clock, loading>>

\* C4: a step that takes the phase from betting to resolving sets
\* lockedPredictions to the activePredictions of that moment, whatever an
\* earlier confirm had locked, and leaves activePredictions unchanged.
LockAtTimeout ==
    [][(Phase(prev) = "betting" /\ Phase(prev') = "resolving") =>
          /\ prev'.lockedPredictions = prev.activePredictions
          /\ prev'.activePredictions = prev.activePredictions]_vars

\* the timeout has just replaced the one prediction a confirm had locked
\* by the two predictions active at the timeout
LockAtTimeoutWitness ==
    /\ Phase(prev) = "resolving"
    /\ Phase(gameState) = "betting"
    /\ Len(gameState.lockedPredictions) = 1
    /\ Len(prev.lockedPredictions) = 2
    /\ prev.lockedPredictions = prev.activePredictions

OnePerCategory(predictions) ==
    /\ Len(predictions) <= 3
    /\ \A i, j \in 1..Len(predictions) :
           i # j => predictions[i].category # predictions[j].category

\* what an accepted addPrediction(type) must make of the list `old`
Replaced(old, new, type) ==
    /\ Len(new) >= 1
    /\ new[Len(new)].type = type
    /\ \A i \in 1..Len(new) - 1 : new[i].category # CategoryOf(type)
    /\ \A i \in 1..Len(old) :
           old[i].category # CategoryOf(type) =>
               \E j \in 1..Len(new) - 1 : new[j] = old[i]
    /\ \A j \in 1..Len(new) - 1 : \E i \in 1..Len(old) : old[i] = new[j]

\* C5: activePredictions and lockedPredictions hold at most one prediction
\* per category (so at most 3) in every state, and an accepted
\* addPrediction(type) keeps the predictions of the other categories, drops
\* the one of its own category and adds the new one.
InsertReplace ==
    /\ [](/\ OnePerCategory(prev.activePredictions)
          /\ OnePerCategory(prev.lockedPredictions)
          /\ OnePerCategory(gameState.activePredictions)
          /\ OnePerCategory(gameState.lockedPredictions))
    /\ [][\A type \in PredictionType :
             (addPrediction(type) /\ toast' = "none") =>
                 /\ Replaced(prev.activePredictions, prev'.activePredictions, type)
                 /\ Replaced(gameState.activePredictions,
                             gameState'.activePredictions, type)]_vars

\* three categories are held, the size bet placed last over the locked "big"
InsertReplaceWitness ==
    /\ Len(prev.activePredictions) = 3
    /\ prev.activePredictions[3].type = "small"
    /\ Len(prev.lockedPredictions) = 3
    /\ prev.lockedPredictions[1].type = "big"

PlaceRejectedWhenEmpty ==
    [][(placePredictions /\ Len(gameState.activePredictions) = 0) =>
          (IntentIgnored /\ toast' = "select-one")]_vars

\* a confirm with no active prediction has just been rejected, and the
\* predictions of an earlier confirm are still locked
PlaceRejectedWhenEmptyWitness ==
    /\ toast = "select-one"
    /\ Phase(gameState) = "betting"
    /\ Len(prev.lockedPredictions) > 0

ClearOnlyInBetting ==
    [][clearPredictions =>
          IF Phase(prev) = "betting"
          THEN prev' = [prev EXCEPT !.activePredictions = <<>>]
          ELSE prev'.activePredictions = prev.activePredictions]_vars

\* C10: changeDuration(d) during betting sets selectedDuration, duration
\* and timeRemaining to d and leaves every other field unchanged.
ChangeDurationInBetting ==
    [][\A d \in RoundDuration :
          changeDuration(d) =>
              /\ Phase(prev) = "betting" =>
                     /\ prev'.selectedDuration = d
                     /\ prev'.currentRound =
                            [duration |-> d, timeRemaining |-> d, phase |-> "betting"]
                     /\ prev' = [prev EXCEPT !.selectedDuration = d,
                                             !.currentRound = prev'.currentRound]
              /\ Phase(gameState) = "betting" =>
                     /\ gameState'.selectedDuration = d
                     /\ gameState'.currentRound =
                            [duration |-> d, timeRemaining |-> d, phase |-> "betting"]
                     /\ gameState' = [gameState EXCEPT
                                         !.selectedDuration = d,
                                         !.currentRound = gameState'.currentRound]]_vars

\* the duration has just been changed to 20 in a round that holds predictions
ChangeDurationInBettingWitness ==
    /\ toast = "duration"
    /\ Phase(prev) = "betting"
    /\ prev.selectedDuration = 20
    /\ prev.currentRound.duration = 20
    /\ TimeRemaining(prev) = 20
    /\ Len(prev.activePredictions) = 2
    /\ Len(prev.lockedPredictions) = 1
    /\ Len(prev.history) = 1

\* C11: changeDuration(d) while the phase is resolving or showing-result is
\* accepted: it sets selectedDuration to d and leaves currentRound and every
\* other field unchanged; no timer is started or stopped by it.
ChangeDurationOutsideBetting ==
    [][\A d \in RoundDuration :
          changeDuration(d) =>
              /\ toast' = "duration"
              /\ Phase(prev) # "betting" =>
                     /\ prev'.selectedDuration = d
                     /\ prev'.currentRound = prev.currentRound
                     /\ prev' = [prev EXCEPT !.selectedDuration = d]
              /\ Phase(gameState) # "betting" =>
                     /\ gameState'.selectedDuration = d
                     /\ gameState'.currentRound = gameState.currentRound
                     /\ gameState' = [gameState EXCEPT !.selectedDuration = d]
                     /\ UNCHANGED <<intervalRef, endRoundTimers, newRoundTimers>>]_vars

\* the duration has just been changed to 20 while a round of duration 10
\* that holds predictions is resolving
ChangeDurationOutsideBettingWitness ==
    /\ toast = "duration"
    /\ Phase(prev) = "resolving"
    /\ Phase(gameState) = "resolving"
    /\ prev.selectedDuration = 20
    /\ prev.currentRound.duration = 10
    /\ TimeRemaining(prev) = 0
    /\ Len(prev.lockedPredictions) = 2

\* C12: the step from showing-result to betting replaces the round: the
\* phase is betting, duration and timeRemaining are the selectedDuration
\* held at that moment, activePredictions and lockedPredictions are empty;
\* selectedDuration, lastResult and history are kept.
RolloverFresh ==
    [][(Phase(prev) = "showing-result" /\ Phase(prev') = "betting") =>
          /\ prev'.currentRound = [duration |-> prev.selectedDuration,
                                   timeRemaining |-> prev.selectedDuration,
                                   phase |-> "betting"]
          /\ prev'.activePredictions = <<>>
          /\ prev'.lockedPredictions = <<>>
          /\ prev'.selectedDuration = prev.selectedDuration
          /\ prev'.lastResult = prev.lastResult
          /\ prev'.history = prev.history]_vars

\* the round that follows a round of duration 10 with predictions has just
\* started with the duration 20 chosen while the phase was not betting
RolloverFreshWitness ==
    /\ renderPending
    /\ Phase(gameState) = "showing-result"
    /\ gameState.currentRound.duration = 10
    /\ gameState.selectedDuration = 20
    /\ Len(gameState.lockedPredictions) = 2
    /\ Len(gameState.activePredictions) = 2
    /\ FreshRound(prev)
    /\ prev.currentRound.duration = 20

\* C13: history holds the results of the min(n, 10) most recent of the n
\* rounds resolved so far, the newest at index 1 and each older by one round
\* than the entry before it (so the result of round 1 is gone after round
\* 11); a step that changes history puts the new result in front, moves the
\* entries it keeps one place back unaltered and drops the eleventh.
HistoryBounded ==
    /\ [](/\ Len(prev.history) = Min(clock, 10)
          /\ \A i \in 1..Len(prev.history) :
                 prev.history[i].timestamp = clock - i + 1
          /\ clock > 10 =>
                 \A i \in 1..Len(prev.history) :
                     prev.history[i].timestamp > clock - 10)
    /\ [][prev'.history # prev.history =>
             /\ clock' = clock + 1
             /\ Len(prev'.history) = Min(Len(prev.history) + 1, 10)
             /\ prev'.history[1].timestamp = clock'
             /\ \A i \in 2..Len(prev'.history) :
                    prev'.history[i] = prev.history[i - 1]]_vars

\* eleven rounds have been resolved: history holds the results of rounds
\* 11 down to 2
HistoryBoundedWitness ==
    /\ clock = 11
    /\ Len(prev.history) = 10
    /\ prev.history[1].timestamp = 11
    /\ prev.history[10].timestamp = 2
    /\ \E i \in 1..10 : prev.history[i].color # prev.history[1].color

\* C14: a round is resolved exactly once.  At most one endRound timer and at
\* most one startNewRound timer is pending; an endRound timer is pending only
\* while the phase is resolving and a startNewRound timer only while it is
\* showing-result, so none is left over when the next round is in betting;
\* a rendered resolving phase has its endRound timer and a showing-result
\* phase its startNewRound timer; history has one entry per resolution, a
\* result is added only by the step from resolving to showing-result and
\* startNewRound runs only in showing-result.
ResolvedOnce ==
    /\ [](/\ Len(endRoundTimers) <= 1
          /\ Len(newRoundTimers) <= 1
          /\ endRoundTimers # <<>> => Phase(prev) = "resolving"
          /\ newRoundTimers # <<>> => Phase(prev) = "showing-result"
          /\ (Phase(prev) = "resolving" /\ ~renderPending) =>
                 Len(endRoundTimers) = 1
          /\ Phase(prev) = "showing-result" => Len(newRoundTimers) = 1
          /\ Len(prev.history) = Min(clock, 10))
    /\ [][/\ prev'.history # prev.history =>
                 /\ Phase(prev) = "resolving"
                 /\ Phase(prev') = "showing-result"
                 /\ Len(endRoundTimers') = Len(endRoundTimers) - 1
          /\ StartNewRound =>
                 /\ Phase(prev) = "showing-result"
                 /\ Phase(prev') = "betting"]_vars

\* the round after the first resolution is under way: one result, no timer
\* of the round before is left
ResolvedOnceWitness ==
    /\ clock = 1
    /\ Len(prev.history) = 1
    /\ Phase(prev) = "betting"
    /\ Phase(gameState) = "betting"
    /\ TimeRemaining(prev) < prev.currentRound.duration
    /\ endRoundTimers = <<>>
    /\ newRoundTimers = <<>>

\* C15: once the phase has gone from betting to resolving, no step changes
\* lockedPredictions until the next round starts.
LockedFrozen ==
    [][(Phase(prev) \in {"resolving", "showing-result"} /\ Phase(prev') # "betting") =>
          prev'.lockedPredictions = prev.lockedPredictions]_vars

DurationsAndTimeInRange ==
    \A s \in {prev, gameState} :
        /\ s.currentRound.duration \in {10, 15, 20}
        /\ s.selectedDuration \in {10, 15, 20}
        /\ 0 <= TimeRemaining(s)
        /\ TimeRemaining(s) <= s.currentRound.duration

\* the second round, of duration 15, has run out and 20 has been selected
\* for the third
DurationsAndTimeInRangeWitness ==
    /\ prev.currentRound.duration = 15
    /\ prev.selectedDuration = 20
    /\ TimeRemaining(prev) = 0
    /\ Phase(gameState) = "resolving"
    /\ clock = 1

\* C18 as stated: a step raises timeRemaining only by taking the phase from
\* showing-result to betting.
TimeRaisedOnlyByRollover ==
    [][TimeRemaining(prev') > TimeRemaining(prev) =>
          (Phase(prev) = "showing-result" /\ Phase(prev') = "betting")]_vars

\* C18: a step raises timeRemaining only by taking the phase from
\* showing-result to betting, which sets it to selectedDuration, or as a
\* changeDuration(d) during betting, which sets it to d; the same holds
\* for the rendered state, whose rollover is a render.
TimeRaisedByRolloverOrChange ==
    [][/\ TimeRemaining(prev') > TimeRemaining(prev) =>
              \/ /\ Phase(prev) = "showing-result"
                 /\ Phase(prev') = "betting"
                 /\ TimeRemaining(prev') = prev.selectedDuration
              \/ \E d \in RoundDuration :
                     /\ changeDuration(d)
                     /\ Phase(prev) = "betting"
                     /\ Phase(prev') = "betting"
                     /\ TimeRemaining(prev') = d
       /\ TimeRemaining(gameState') > TimeRemaining(gameState) =>
              \/ /\ Phase(gameState) = "showing-result"
                 /\ Phase(gameState') = "betting"
                 /\ Render
              \/ \E d \in RoundDuration :
                     /\ changeDuration(d)
                     /\ Phase(gameState) = "betting"
                     /\ Phase(gameState') = "betting"
                     /\ TimeRemaining(gameState') = d]_vars

\* in the second round, with one prediction selected, the duration has just
\* been changed to 15 and the countdown stands at 15 again
TimeRaisedWitness ==
    /\ toast = "duration"
    /\ clock = 1
    /\ Phase(prev) = "betting"
    /\ TimeRemaining(prev) = 15
    /\ prev.currentRound.duration = 15
    /\ Len(prev.activePredictions) = 1

\* the win rule: 'big' wins iff the number is at least 5, 'small' iff it is
\* below 5, a color iff it is the result's color, a number iff it is the
\* result's number
WinRule(result, type) ==
    \/ type = "big" /\ result.number >= 5
    \/ type = "small" /\ result.number < 5
    \/ type \in {"red", "green", "blue"} /\ type = result.color
    \/ \E n \in 0..9 : type = Digits[n + 1] /\ n = result.number

\* C19: checkWinnings(result, predictions) returns exactly the predictions
\* that satisfy the win rule, in the order of the list: as many entries as
\* there are winning positions, the i-th entry being the prediction at the
\* i-th winning position; 'small' alone against number 8 yields no winners.
CheckWinningsExact ==
    call.returned # <<>> =>
        LET result == call.result[1]
            predictions == call.predictions
            winners == call.returned[1]
            winning == {j \in 1..Len(predictions) : WinRule(result, predictions[j].type)}
        IN /\ Len(winners) = Cardinality(winning)
           /\ \A j \in winning :
                  winners[Cardinality({k \in winning : k <= j})] = predictions[j]
           /\ (predictions = <<MakePrediction("small")>> /\ result.number = 8) =>
                  winners = <<>>

\* checkWinnings has returned no winners for 'small' against number 8
CheckWinningsExactWitness ==
    /\ call.result # <<>>
    /\ call.result[1].number = 8
    /\ call.predictions = <<MakePrediction("small")>>
    /\ call.returned = <<<<>>>>

\* C20: the total multiplier that endRound reports is the sum of the
\* multipliers of the locked predictions that satisfy the win rule, and the
\* winner toast is shown when that sum is positive; with 'big' and 'red'
\* locked in a round of duration 10 and the result 7 red, both win with
\* multipliers 19 and 28 and the total is 47 (tenths).
PayoutIsSum ==
    [][prev'.history # prev.history =>
          LET result == prev'.lastResult[1]
              locked == prev.lockedPredictions
              Won(i) == IF i <= Len(locked) /\ WinRule(result, locked[i].type)
                        THEN locked[i].multiplier ELSE 0
          IN /\ Len(locked) <= 3
             /\ totalWinnings' = Won(1) + Won(2) + Won(3)
             /\ toast' = "winner" <=> totalWinnings' > 0
             /\ ( /\ locked = <<MakePrediction("big"), MakePrediction("red")>>
                  /\ result.number = 7 /\ result.color = "red"
                  /\ result.duration = 10 ) =>
                    /\ checkWinnings(result, locked) = locked
                    /\ locked[1].multiplier = 19
                    /\ locked[2].multiplier = 28
                    /\ totalWinnings' = 47]_vars

\* 'big' and 'red' were locked in a round of duration 10, the result is
\* 7 red and the toast reports the total 47
PayoutIsSumWitness ==
    /\ toast = "winner"
    /\ totalWinnings = 47
    /\ Phase(prev) = "showing-result"
    /\ prev.currentRound.duration = 10
    /\ prev.lockedPredictions = <<MakePrediction("big"), MakePrediction("red")>>
    /\ prev.lastResult = <<[number |-> 7, color |-> "red", timestamp |-> 1, duration |-> 10]>>

\* the fixed table of the prediction catalog, multipliers in tenths
CatalogEntry(type) ==
    IF type \in {"big", "small"} THEN [category |-> "size", multiplier |-> 19]
    ELSE IF type \in {"red", "green", "blue"} THEN [category |-> "color", multiplier |-> 28]
    ELSE [category |-> "number", multiplier |-> 90]

\* C21: every prediction in activePredictions and lockedPredictions, of the
\* updaters' state and of the rendered state, has one of the 15 types (big,
\* small, red, green, blue, 0..9) and carries the category and multiplier
\* the catalog gives for its type: size 19, color 28, number 90 (tenths).
CatalogRespected ==
    \A s \in {prev, gameState} :
        \A list \in {s.activePredictions, s.lockedPredictions} :
            \A i \in 1..Len(list) :
                /\ list[i].type \in {"big", "small", "red", "green", "blue",
                                     "0", "1", "2", "3", "4", "5", "6", "7", "8", "9"}
                /\ list[i].category = CatalogEntry(list[i].type).category
                /\ list[i].multiplier = CatalogEntry(list[i].type).multiplier

\* a size, a color and a number prediction are confirmed and selected
CatalogRespectedWitness ==
    /\ Len(prev.lockedPredictions) = 3
    /\ \E i \in 1..3 : prev.lockedPredictions[i].type = "small"
    /\ \E i \in 1..3 : prev.lockedPredictions[i].type = "green"
    /\ \E i \in 1..3 : prev.lockedPredictions[i].type = "0"
    /\ Len(prev.activePredictions) = 3
    /\ \E i \in 1..3 : prev.activePredictions[i].type = "9"

\* C22: lastResult and every history entry have a number in 0..9 and a
\* color among red, green, blue; and when a round is about to be resolved,
\* each of the 30 pairs of a number and a color can be the result.
ResultsInRange ==
    /\ \A i \in 1..Len(prev.lastResult) :
           /\ prev.lastResult[i].number \in 0..9
           /\ prev.lastResult[i].color \in {"red", "green", "blue"}
    /\ \A i \in 1..Len(prev.history) :
           /\ prev.history[i].number \in 0..9
           /\ prev.history[i].color \in {"red", "green", "blue"}
    /\ (clock < MaxRounds /\ \E i \in 1..Len(endRoundTimers) : endRoundTimers[i].left = 0) =>
           \A number \in 0..9, color \in {"red", "green", "blue"} :
               ENABLED (/\ EndRound(GeneratedNumbers, GeneratedColors, TRUE, MaxRounds)
                        /\ prev'.lastResult[1].number = number
                        /\ prev'.lastResult[1].color = color)

\* the first round has been resolved with number 9 and color blue
ResultsInRangeWitness ==
    /\ Phase(prev) = "showing-result"
    /\ Len(prev.history) = 1
    /\ prev.lastResult # <<>>
    /\ prev.lastResult[1].number = 9
    /\ prev.lastResult[1].color = "blue"

\* C23: the step that resolves a round stores a result whose duration is
\* the currentRound.duration of that round, whatever selectedDuration is by
\* then; the result stored as lastResult is the one put at the head of
\* history.
ResultCarriesDuration ==
    [][prev'.history # prev.history =>
          /\ prev'.lastResult # <<>>
          /\ prev'.lastResult[1].duration = prev.currentRound.duration
          /\ prev'.currentRound.duration = prev.currentRound.duration
          /\ prev'.history[1] = prev'.lastResult[1]]_vars

\* a round of duration 15 has been resolved after 20 was selected for the
\* next round
ResultCarriesDurationWitness ==
    /\ Phase(prev) = "showing-result"
    /\ prev.currentRound.duration = 15
    /\ prev.selectedDuration = 20
    /\ prev.lastResult # <<>>
    /\ prev.lastResult[1].duration = 15
    /\ prev.history[1] = prev.lastResult[1]

\* C24: an addPrediction or placePredictions that is accepted, its guard
\* having passed on the rendered state, is applied to a state whose phase
\* is betting with time remaining; so none of them changes
\* activePredictions or lockedPredictions while the phase is not betting.
IntentsAtomic ==
    [][(AddPredictionOf(PredictionType) \/ placePredictions) =>
          /\ ~IntentIgnored =>
                 /\ Phase(prev) = "betting"
                 /\ TimeRemaining(prev) > 0
                 /\ Phase(prev) = Phase(gameState)
          /\ Phase(prev) # "betting" =>
                 /\ prev'.activePredictions = prev.activePredictions
                 /\ prev'.lockedPredictions = prev.lockedPredictions]_vars

\* C25: the countdown interval exists exactly while the rendered phase is
\* betting; a tick is applied only to a state in betting, so the phase goes
\* to resolving only from betting and, once the timeout has passed, no tick
\* writes lockedPredictions again.
TickOnlyInBetting ==
    /\ [](intervalRef # <<>> <=> Phase(gameState) = "betting")
    /\ [][/\ Tick =>
                 /\ Phase(prev) = "betting"
                 /\ Phase(gameState) = "betting"
                 /\ TimeRemaining(prev') = TimeRemaining(prev) - 1
          /\ Phase(prev) = "showing-result" => Phase(prev') # "resolving"
          /\ (Phase(prev) # "betting" /\ Phase(prev') # "betting") =>
                 \/ prev'.lockedPredictions = prev.lockedPredictions
                 \/ placePredictions]_vars

\* the timeout tick has been rendered: the phase is resolving with
\* predictions locked, and the interval is gone
TickOnlyInBettingWitness ==
    /\ Phase(prev) = "resolving"
    /\ Phase(gameState) = "resolving"
    /\ intervalRef = <<>>
    /\ Len(endRoundTimers) = 1
    /\ endRoundTimers[1].left = 1
    /\ Len(prev.lockedPredictions) = 2

\* the fields of GameState that the round engine works on
Core(s) ==
    <<s.currentRound, s.activePredictions, s.lockedPredictions, s.lastResult,
      s.history, s.selectedDuration>>

\* C26: a fake betting-activity entry and a change of the sound or the
\* animation setting leave currentRound, activePredictions,
\* lockedPredictions, lastResult, history and selectedDuration unchanged,
\* in the updaters' state and in the rendered state, and leave the countdown
\* interval and the pending dwell timers as they are; so does the render of
\* such an update alone.
CosmeticNoCoreEffect ==
    [][/\ ( \/ BettingActivityInterval(ActivityBetTypes)
            \/ \E checked \in BOOLEAN : onSoundCheckedChange(checked)
            \/ \E checked \in BOOLEAN : onAnimationsCheckedChange(checked) ) =>
              /\ Core(prev') = Core(prev)
              /\ Core(gameState') = Core(gameState)
              /\ UNCHANGED <<intervalRef, endRoundTimers, newRoundTimers>>
       /\ (Render /\ Core(prev) = Core(gameState)) =>
              /\ Core(gameState') = Core(gameState)
              /\ UNCHANGED <<intervalRef, endRoundTimers, newRoundTimers>>]_vars

\* after five activity entries a sixth has just been added and is waiting
\* for its render; sound is off; the countdown is half-way to its next tick
CosmeticNoCoreEffectWitness ==
    /\ renderPending
    /\ Core(prev) = Core(gameState)
    /\ Len(gameState.bettingActivity) = 5
    /\ Len(prev.bettingActivity) = 5
    /\ prev.bettingActivity # gameState.bettingActivity
    /\ ~prev.settings.soundEnabled
    /\ prev.settings.animationsEnabled
    /\ Phase(prev) = "betting"
    /\ TimeRemaining(prev) = 7
    /\ intervalRef = <<1>>

UniformPreimages ==
    /\ \A i \in 1..Len(prev.history) :
           /\ prev.history[i].number \in DOMAIN NumberPreimages
           /\ \E c \in DOMAIN ColorPreimages : prev.history[i].color = Colors[c + 1]
    /\ \A r \in 0..9 : NumberPreimages[r] = NumberPreimages[0]
    /\ \A r \in 0..2 : ColorPreimages[r] = ColorPreimages[0]

\* C28: each path of getRandomInt(max) returns every value of 0..max-1, for
\* max = 10 and max = 3.  Under x mod max of a 32-bit unsigned integer the
\* residues have nearly, not exactly, the same number of preimages: for max
\* = 10 the residues 0..5 have 429496730 and 6..9 have 429496729; for max =
\* 3 the residue 0 has 1431655766 and 1, 2 have 1431655765.  The number and
\* the color index of every stored result are among these residues.
ModuloBiasOfOne ==
    /\ \A max \in {10, 3} :
           /\ {GetRandomInt(x, max) : x \in Entropy} = 0..(max - 1)
           /\ {MathRandomInt(k, max) : k \in Entropy} = 0..(max - 1)
    /\ \A r \in 0..9 :
           NumberPreimages[r] = IF r < 6 THEN 429496730 ELSE 429496729
    /\ \A r \in 0..2 :
           ColorPreimages[r] = IF r < 1 THEN 1431655766 ELSE 1431655765
    /\ \A i \in 1..Len(prev.history) :
           /\ prev.history[i].number \in DOMAIN NumberPreimages
           /\ \E c \in DOMAIN ColorPreimages : prev.history[i].color = Colors[c + 1]

\* a round has been resolved with number 6, the first of the residues with
\* one preimage fewer, and color red, the residue with one preimage more
ModuloBiasOfOneWitness ==
    /\ Phase(prev) = "showing-result"
    /\ prev.lastResult # <<>>
    /\ prev.lastResult[1].number = 6
    /\ prev.lastResult[1].color = Colors[1]
    /\ NumberPreimages[6] < NumberPreimages[5]
    /\ ColorPreimages[0] > ColorPreimages[1]

\* a callback of the automatic path runs: one of the initializing, loading
\* and ready timers, or the onComplete timeout
AutomaticPathFires ==
    InitializingTimeout \/ ProgressInterval \/ ReadyDelayTimeout
        \/ handleComplete \/ onComplete

\* C29: once handleSkip has run no timer of the automatic path and no
\* onComplete timeout fires, and over the life of the screen onComplete and
\* onSkip are invoked at most once in total, however often Skip is clicked.
SkipInvalidatesTimers ==
    /\ [](loading.onCompleteCalls + loading.onSkipCalls <= 1)
    /\ [][loading.skips > 0 => ~AutomaticPathFires]_vars

\* C30: a placePredictions accepted during betting leaves the countdown
\* interval as it is: the time left to its next tick is kept.
ConfirmKeepsCountdown ==
    [][(Phase(gameState) = "betting" /\ placePredictions /\ toast' = "placed")
           => intervalRef' = intervalRef]_vars

\* C31: the phase is betting exactly when timeRemaining is at least 1: the
\* tick that would reach 0 moves to resolving in the same step, and
\* timeRemaining is 0 throughout resolving and showing-result.
BettingIffTimeLeft ==
    /\ Phase(prev) = "betting" <=> TimeRemaining(prev) >= 1
    /\ Phase(prev) # "betting" => TimeRemaining(prev) = 0
    /\ Phase(gameState) = "betting" <=> TimeRemaining(gameState) >= 1

BettingIffTimeLeftWitness ==
    /\ Phase(prev) = "showing-result"
    /\ TimeRemaining(prev) = 0
    /\ prev.selectedDuration = 15
    /\ clock = 1

\* C32: whenever the phase is betting, currentRound.duration equals
\* selectedDuration; a step makes the two differ only by changing
\* selectedDuration while the phase is resolving or showing-result, and the
\* rollover to the next round makes them equal again.
DurationIsSelectedInBetting ==
    /\ [](/\ Phase(prev) = "betting" =>
                 prev.currentRound.duration = prev.selectedDuration
          /\ Phase(gameState) = "betting" =>
                 gameState.currentRound.duration = gameState.selectedDuration)
    /\ [][/\ (/\ prev.currentRound.duration = prev.selectedDuration
              /\ prev'.currentRound.duration # prev'.selectedDuration)
                 => /\ Phase(prev) \in {"resolving", "showing-result"}
                    /\ Phase(prev') = Phase(prev)
                    /\ prev'.selectedDuration # prev.selectedDuration
                    /\ prev'.currentRound = prev.currentRound
          /\ (Phase(prev) = "showing-result" /\ Phase(prev') = "betting")
                 => prev'.currentRound.duration = prev'.selectedDuration]_vars

\* the round of duration 10 has resolved and shows its result while the
\* duration selected for the next round is 15
DurationIsSelectedInBettingWitness ==
    /\ Phase(prev) = "showing-result"
    /\ Phase(gameState) = "showing-result"
    /\ prev.currentRound.duration = 10
    /\ prev.selectedDuration = 15
    /\ prev.lastResult # <<>>

\* C33: lastResult is null exactly when history is empty, and otherwise it
\* is the head of history; once a round has resolved neither is reset, and
\* the rollover to a new round keeps both.
LastResultIsHistoryHead ==
    /\ [](/\ prev.lastResult = <<>> <=> prev.history = <<>>
          /\ prev.lastResult # <<>> => prev.lastResult[1] = prev.history[1]
          /\ gameState.lastResult = <<>> <=> gameState.history = <<>>
          /\ gameState.lastResult # <<>> =>
                 gameState.lastResult[1] = gameState.history[1])
    /\ [][/\ prev.lastResult # <<>> =>
                 prev'.lastResult # <<>> /\ prev'.history # <<>>
          /\ (Phase(prev) = "showing-result" /\ Phase(prev') = "betting") =>
                 /\ prev'.lastResult = prev.lastResult
                 /\ prev'.history = prev.history]_vars

\* the third round is in betting, with the results of the first two rounds
\* in the history and the second of them as lastResult
LastResultIsHistoryHeadWitness ==
    /\ Phase(prev) = "betting"
    /\ Len(prev.history) = 2
    /\ prev.lastResult = <<prev.history[1]>>
    /\ prev.history[1] # prev.history[2]

\* the predictions of a list that are not of the given category, in order
OtherCategories(predictions, category) ==
    SelectSeq(predictions, LAMBDA p : p.category # category)

\* C34: addPrediction(k) applied twice gives the activePredictions it gives
\* applied once; addPrediction(k1) followed by addPrediction(k2) of the same
\* category leaves only k2 in that category; the predictions of the other
\* categories keep their relative order and the new prediction is last.
AddPredictionLastWriteWins ==
    /\ [](\A k1 \in PredictionType :
            LET once == AddPredictionUpdate(prev, k1)
                n == Len(once.activePredictions)
            IN /\ AddPredictionUpdate(once, k1).activePredictions
                      = once.activePredictions
               /\ n >= 1
               /\ once.activePredictions[n].type = k1
               /\ SubSeq(once.activePredictions, 1, n - 1)
                      = OtherCategories(prev.activePredictions, CategoryOf(k1))
               /\ \A k2 \in PredictionType :
                      CategoryOf(k2) = CategoryOf(k1) =>
                          LET twice == AddPredictionUpdate(once, k2)
                          IN /\ SelectSeq(twice.activePredictions,
                                          LAMBDA p : p.category = CategoryOf(k1))
                                    = <<MakePrediction(k2)>>
                             /\ twice.activePredictions
                                    = AddPredictionUpdate(prev, k2).activePredictions)
    /\ [][(/\ Phase(gameState) = "betting"
           /\ \E k \in PredictionType : addPrediction(k))
              => LET n == Len(prev'.activePredictions)
                     new == prev'.activePredictions[n]
                 IN /\ n >= 1
                    /\ SubSeq(prev'.activePredictions, 1, n - 1)
                           = OtherCategories(prev.activePredictions, new.category)
                    /\ \A i \in 1..(n - 1) :
                           prev'.activePredictions[i].category # new.category]_vars

\* a size was picked after a color and a number, in the place of the size
\* picked before them: the list ends with the size
AddPredictionLastWriteWinsWitness ==
    /\ Len(prev.activePredictions) = 3
    /\ prev.activePredictions[1].category = "color"
    /\ prev.activePredictions[2].category = "number"
    /\ prev.activePredictions[3] = MakePrediction("small")
    /\ prev.activePredictions[2] = MakePrediction("7")

\* C35: the win shown for a single prediction agrees with the evaluation of
\* the whole list: a prediction of the list is among the winners exactly
\* when checkWinnings on it alone is non-empty, and the winners are a
\* sub-sequence of the list, in its order.
DisplayAgreesWithBatch ==
    call.returned # <<>> =>
        LET result == call.result[1]
            predictions == call.predictions
            winners == call.returned[1]
        IN /\ \A i \in 1..Len(predictions) :
                  (\E j \in 1..Len(winners) : winners[j] = predictions[i])
                      <=> IsWinDisplayed(result, predictions[i])
           /\ \E f \in [1..Len(winners) -> 1..Len(predictions)] :
                  /\ \A j \in 1..Len(winners) : winners[j] = predictions[f[j]]
                  /\ \A j, k \in 1..Len(winners) : j < k => f[j] < f[k]

\* a list of a loser followed by a winner has been evaluated: 'small' and
\* 'red' against the number 7 in red
DisplayAgreesWithBatchWitness ==
    /\ call.returned # <<>>
    /\ call.result[1].number = 7
    /\ call.result[1].color = "red"
    /\ call.predictions = <<MakePrediction("small"), MakePrediction("red")>>
    /\ ~IsWinDisplayed(call.result[1], call.predictions[1])
    /\ IsWinDisplayed(call.result[1], call.predictions[2])

\* C36: history and lastResult are changed only by the step from resolving
\* to showing-result; countdown ticks, the rollover, addPrediction,
\* clearPredictions, placePredictions and changeDuration leave both as they
\* are, and that step leaves activePredictions, lockedPredictions,
\* currentRound.duration, timeRemaining and selectedDuration as they are.
ResultWrittenOnlyByEndRound ==
    [][/\ (prev'.history # prev.history \/ prev'.lastResult # prev.lastResult)
              => /\ EndRoundStep
                 /\ Phase(prev) = "resolving"
                 /\ Phase(prev') = "showing-result"
       /\ EndRoundStep
              => /\ prev'.lastResult # prev.lastResult
                 /\ prev'.history # prev.history
                 /\ prev'.activePredictions = prev.activePredictions
                 /\ prev'.lockedPredictions = prev.lockedPredictions
                 /\ prev'.currentRound.duration = prev.currentRound.duration
                 /\ TimeRemaining(prev') = TimeRemaining(prev)
                 /\ prev'.selectedDuration = prev.selectedDuration
       /\ (\/ Tick
           \/ StartNewRound
           \/ \E type \in PredictionType : addPrediction(type)
           \/ clearPredictions
           \/ placePredictions
           \/ \E newDuration \in RoundDuration : changeDuration(newDuration))
              => /\ prev'.history = prev.history
                 /\ prev'.lastResult = prev.lastResult]_vars

\* the round has just resolved with predictions picked and locked and
\* with a duration selected for the next round, and none of them was touched
ResultWrittenOnlyByEndRoundWitness ==
    /\ Phase(prev) = "showing-result"
    /\ Phase(gameState) = "resolving"
    /\ prev.lastResult # <<>>
    /\ prev.activePredictions # <<>>
    /\ prev.lockedPredictions # <<>>
    /\ prev.selectedDuration = 20
    /\ prev.currentRound.duration = 10

\* position of a loading state in initializing -> loading -> ready
LoadingRank(state) ==
    IF state = "initializing" THEN 0 ELSE IF state = "loading" THEN 1 ELSE 2

\* C37: the loading state only moves forward, one state at a time, from
\* initializing to loading to ready; progress never decreases, stays
\* within 0..100 (0..1000 tenths), changes only while the state is loading,
\* by 2, 1.5, 0.8 or 0.3 according to its band and capped at 100, and the
\* state becomes ready only after progress has reached 100.
LoadingMovesForward ==
    /\ [](/\ loading.loadingState \in {"initializing", "loading", "ready"}
          /\ loading.progress \in 0..1000
          /\ loading.loadingState = "initializing" => loading.progress = 0
          /\ loading.loadingState = "ready" => loading.progress = 1000)
    /\ [][/\ LoadingRank(loading'.loadingState) >= LoadingRank(loading.loadingState)
          /\ LoadingRank(loading'.loadingState) <= LoadingRank(loading.loadingState) + 1
          /\ loading'.progress >= loading.progress
          /\ loading'.progress # loading.progress
                 => /\ loading.loadingState = "loading"
                    /\ loading'.loadingState = "loading"
                    /\ \E step \in {IF loading.progress < 300 THEN 20
                                    ELSE IF loading.progress < 700 THEN 15
                                    ELSE IF loading.progress < 950 THEN 8
                                    ELSE 3} :
                           loading'.progress = Min(loading.progress + step, 1000)
          /\ (loading.loadingState # "ready" /\ loading'.loadingState = "ready")
                 => loading.progress = 1000]_vars

\* the screen is rendered in the ready state, progress is 100 and the
\* timer of handleComplete is running
LoadingMovesForwardWitness ==
    /\ Mounted(loading)
    /\ loading.loadingState = "ready"
    /\ loading.progress = ProgressFull
    /\ loading.timer # <<>>
    /\ ~loading.isExiting

\* C38: if Skip is never clicked the screen reaches ready and then invokes
\* onComplete, upon which Page renders the game in its initial state; the
\* game is rendered exactly from the first delivery of onComplete or onSkip
\* on, the loading screen is never rendered again, and before that
\* delivery no timer of the game exists.
LoadingCompletes ==
    /\ [](/\ Mounted(loading)
                 <=> loading.onCompleteCalls + loading.onSkipCalls = 0
          /\ Mounted(loading)
                 => /\ intervalRef = <<>>
                    /\ endRoundTimers = <<>>
                    /\ newRoundTimers = <<>>
          /\ ~Mounted(loading)
                 => /\ intervalRef = <<TickQuanta>>
                    /\ prev = InitialGameState
                    /\ gameState = InitialGameState)
    /\ [][~Mounted(loading) => ~Mounted(loading')]_vars
    /\ ([](loading.skips = 0)
           => <>(/\ Mounted(loading)
                 /\ loading.loadingState = "ready"
                 /\ loading.onCompleteCalls = 0
                 /\ <>(/\ loading = LoadingCompleted
                       /\ intervalRef = <<TickQuanta>>)))

\* the screen ran to its end without a click: onComplete was invoked once
\* and Page renders the game
LoadingCompletesWitness ==
    /\ loading = LoadingCompleted
    /\ loading.skips = 0
    /\ intervalRef = <<TickQuanta>>

====
